---- MODULE Spec2Model ----
(***************************************************************************)
(* Model of the Feishu <-> Claude CLI bridge.                              *)
(*                                                                         *)
(*   claude-cli.js (src/unnamed/part_000)                                  *)
(*       queryClaude, abortClaudeSession, isClaudeSessionActive and the     *)
(*       module-level registry activeClaudeProcesses                       *)
(*   server/lib/feishu-session.js   FeishuSessionManager                    *)
(*   server/feishu-ws.js            FeishuService.start / handleMessage     *)
(*   server/lib/feishu-message-writer.js   FeishuMessageWriter              *)
(*                                                                         *)
(* Node runs the handlers on one thread: an action of the model is the     *)
(* code that runs between two suspension points (await, event callback).   *)
(*                                                                         *)
(* Units.  Text lengths are counted in units of 1000 characters and the    *)
(* writer's times in units of 500 ms, so that flushThreshold = 2000 is 2,  *)
(* the chunk bound 5000 is 5, flushInterval = 3000 ms is 6 and the pacing  *)
(* delay of 500 ms is 1.                                                   *)
(***************************************************************************)
EXTENDS Integers, Sequences, FiniteSets, TLC

VARIABLES
    now,                    \* Date.now()
    activeClaudeProcesses,  \* claude-cli.js: Map key -> process (the invocation owning it)
    inv,                    \* one record per queryClaude call
    nextSid,                \* number of the next session id the CLI hands out
    db,                     \* feishu_sessions: one row per conversation, or no row
    msg,                    \* one record per handleMessage call
    isRunning,              \* FeishuService.isRunning
    messageLog,             \* feishu_message_log: the message ids logged
    hist,                   \* history: restarts so far, ids persisted at the last restart,
                            \* the last direct call of isSessionBusy
    buffer,                 \* FeishuMessageWriter.buffer
    lastFlushTime,          \* FeishuMessageWriter.lastFlushTime
    flushTimer,             \* FeishuMessageWriter.flushTimer: NoTimer or the time it is due
    timers,                 \* the setTimeout calls of flushIfNeeded still pending, by due time
    flushes,                \* the flush() calls made so far, each with its position
    completePc,             \* position of complete()
    io,                     \* history of the writer: text appended, chunks given to sendTextMessage, calls
    split                   \* a direct call of writer.splitMessage(text, maxLength) and what it returned

runnerVars == <<now, activeClaudeProcesses, inv, nextSid>>
serviceVars == <<db, msg, isRunning, hist, messageLog>>
writerVars == <<buffer, lastFlushTime, flushTimer, timers, flushes, completePc, io, split>>
vars == <<now, activeClaudeProcesses, inv, nextSid, db, msg, isRunning, hist, messageLog,
          buffer, lastFlushTime, flushTimer, timers, flushes, completePc, io, split>>

----------------------------------------------------------------------------
(* Bounds *)

MaxInv == 2         \* queryClaude calls
MaxClock == 1       \* Date.now() reads 0..MaxClock in the runner and the service
MaxSid == 2         \* session ids the CLI hands out
MaxLines == 2       \* stdout and stderr lines the processes write between two restarts
MaxMsg == 2         \* handleMessage calls between two restarts
MaxRestarts == 1    \* service restarts

Null == "NULL"      \* JavaScript null / undefined
NoCode == -1000     \* the close event's code when the process was ended by a signal (null)
SpawnErrno == -2    \* the close event's code after a failed spawn (ENOENT)
NoOwner == 0        \* an invocation that no handleMessage call started
NoTimer == -1       \* flushTimer = null

Invs == 1..MaxInv
Msgs == 1..MaxMsg
Convs == {"user-a"}

Sid(n) == "s" \o ToString(n)
IssuedSids == {Sid(n) : n \in 1..(nextSid - 1)}

\* a session the CLI recorded before this server process started: a caller can
\* resume it
PriorSids == {Sid(0)}
AllSids == PriorSids \cup {Sid(n) : n \in 1..MaxSid}

ExitCodes == {0, 1}

\* `${code}` in a template literal
CodeText(code) == IF code = NoCode THEN "null" ELSE ToString(code)

Range(s) == {s[k] : k \in DOMAIN s}

----------------------------------------------------------------------------
(* claude-cli.js: the registry *)

Registered == DOMAIN activeClaudeProcesses

isClaudeSessionActive(sessionId) == sessionId \in Registered

getActiveClaudeSessions == Registered

\* Map.prototype.set
MapSet(map, key, value) ==
    [k \in (DOMAIN map) \cup {key} |-> IF k = key THEN value ELSE map[k]]

\* Map.prototype.delete
MapDelete(map, key) == [k \in (DOMAIN map) \ {key} |-> map[k]]

----------------------------------------------------------------------------
(* claude-cli.js: queryClaude *)

NoInv ==
    [pc |-> "none", sessionId |-> Null, capturedSessionId |-> Null,
     sessionCreatedSent |-> FALSE, processKey |-> Null, args |-> <<>>,
     proc |-> "none", code |-> NoCode, signal |-> Null,
     outcome |-> "pending", error |-> <<>>, settles |-> 0,
     ws |-> <<>>, wsSessionId |-> Null, owner |-> NoOwner, lines |-> 0, inits |-> 0,
     rest |-> <<>>]

\* a || b on strings
Or(a, b) == IF a # Null THEN a ELSE b

\* (a command line that leaves the resume flag out)
BuildArgsNoResume(sessionId) == <<"-p">>

\* the command line: '-p', then '--resume=<id>' when a session id was given
BuildArgs(sessionId) ==
    <<"-p">> \o (IF sessionId # Null THEN <<"--resume=" \o sessionId>> ELSE <<>>)

\* queryClaude up to its first await (loadGaccodeToken): the options are read,
\* the command line is built, nothing is spawned or registered yet.
queryClaude(i, sessionId, owner, wsSessionId) ==
    /\ inv[i].pc = "none"
    /\ \A j \in Invs : j < i => inv[j].pc # "none"
    /\ inv' = [inv EXCEPT ![i] =
                  [NoInv EXCEPT !.pc = "prespawn",
                                !.sessionId = sessionId,
                                !.capturedSessionId = sessionId,
                                !.args = BuildArgs(sessionId),
                                !.owner = owner,
                                !.wsSessionId = wsSessionId]]

\* Date.now(): a reading of the clock, never below the reading before it
DateNow == now..MaxClock

\* const processKey = capturedSessionId || Date.now().toString()
ProcessKey(capturedSessionId, time) == Or(capturedSessionId, ToString(time))

\* spawnFunction(...) and activeClaudeProcesses.set(processKey, claudeProcess), with no
\* suspension in between.  A spawn that fails still returns a process object; its
\* 'error' event comes later.
Spawn(i) ==
    /\ inv[i].pc = "prespawn"
    /\ \E started \in {"alive", "failed"}, time \in DateNow :
         LET key == ProcessKey(inv[i].capturedSessionId, time) IN
         /\ inv' = [inv EXCEPT ![i].pc = "running",
                               ![i].proc = started,
                               ![i].processKey = key]
         /\ activeClaudeProcesses' = MapSet(activeClaudeProcesses, key, i)
         /\ now' = time
    /\ UNCHANGED nextSid

\* The session ids an init line of process i can carry: none, the id the process
\* already runs under, or an id the CLI has not handed out before.
InitIds(i) ==
    {Null}
      \cup (IF inv[i].capturedSessionId # Null THEN {inv[i].capturedSessionId} ELSE {})
      \cup (IF nextSid <= MaxSid THEN {Sid(nextSid)} ELSE {})

WsSend(r, message) == [r EXCEPT !.ws = Append(@, message)]

RECURSIVE LinesWritten(_)
LinesWritten(n) == IF n = 0 THEN 0 ELSE inv[n].lines + LinesWritten(n - 1)

CanWrite(i) ==
    /\ inv[i].pc = "running"
    /\ inv[i].proc \in {"alive", "killed"}
    /\ LinesWritten(MaxInv) < MaxLines

\* One more line read from the process; inits counts the init lines that carry an id.
ReadLine(r, isInitWithId) ==
    [r EXCEPT !.lines = @ + 1, !.inits = IF isInitWithId THEN @ + 1 ELSE @]

\* (a handler with the two guards of the capture dropped: 'session-created' on every
\* init line that carries an id)
StdoutInitUnguarded(i, session_id) ==
    /\ CanWrite(i)
    /\ session_id \in InitIds(i)
    /\ LET r == inv[i]
           r1 == ReadLine(r, session_id # Null)
           r2 == IF session_id # Null
                 THEN [r1 EXCEPT !.capturedSessionId = session_id,
                                 !.wsSessionId = session_id]
                 ELSE r1
           r3 == IF session_id # Null /\ r.sessionId = Null
                 THEN WsSend([r2 EXCEPT !.sessionCreatedSent = TRUE],
                             [type |-> "session-created", data |-> session_id])
                 ELSE r2
       IN /\ inv' = [inv EXCEPT ![i] = r3]
          /\ activeClaudeProcesses' =
                IF session_id # Null /\ r.processKey # session_id
                THEN MapSet(MapDelete(activeClaudeProcesses, r.processKey), session_id, i)
                ELSE activeClaudeProcesses
    /\ nextSid' = IF session_id # Null /\ session_id \notin IssuedSids
                  THEN nextSid + 1 ELSE nextSid
    /\ UNCHANGED now

\* stdout line {type: 'system', subtype: 'init', session_id}
StdoutInit(i, session_id) ==
    /\ CanWrite(i)
    /\ session_id \in InitIds(i)
    /\ LET r == inv[i]
           capture == session_id # Null /\ r.capturedSessionId = Null
           created == capture /\ r.sessionId = Null /\ ~r.sessionCreatedSent
           r1 == ReadLine(r, session_id # Null)
           r2 == IF capture
                 THEN [r1 EXCEPT !.capturedSessionId = session_id,
                                 !.wsSessionId = session_id]
                 ELSE r1
           r3 == IF created
                 THEN WsSend([r2 EXCEPT !.sessionCreatedSent = TRUE],
                             [type |-> "session-created", data |-> session_id])
                 ELSE r2
       IN /\ inv' = [inv EXCEPT ![i] = r3]
          /\ activeClaudeProcesses' =
                IF capture /\ r.processKey # session_id
                THEN MapSet(MapDelete(activeClaudeProcesses, r.processKey), session_id, i)
                ELSE activeClaudeProcesses
    /\ nextSid' = IF session_id # Null /\ session_id \notin IssuedSids
                  THEN nextSid + 1 ELSE nextSid
    /\ UNCHANGED now

\* the 'type' of the other JSON lines; every one is forwarded as 'claude-response'
\* ('user' and the types of the default case are forwarded like these two)
LineTypes == {"assistant", "result"}

StdoutJson(i, type) ==
    /\ CanWrite(i)
    /\ type \in LineTypes
    /\ inv' = [inv EXCEPT ![i] =
                  WsSend(ReadLine(@, FALSE),
                         [type |-> "claude-response", data |-> type])]
    /\ UNCHANGED <<now, activeClaudeProcesses, nextSid>>

\* a stdout line that JSON.parse rejects
StdoutRaw(i) ==
    /\ CanWrite(i)
    /\ inv' = [inv EXCEPT ![i] =
                  WsSend(ReadLine(@, FALSE),
                         [type |-> "claude-output", data |-> "line"])]
    /\ UNCHANGED <<now, activeClaudeProcesses, nextSid>>

StderrData(i) ==
    /\ CanWrite(i)
    /\ inv' = [inv EXCEPT ![i] =
                  WsSend(ReadLine(@, FALSE),
                         [type |-> "claude-error", data |-> "stderr"])]
    /\ UNCHANGED <<now, activeClaudeProcesses, nextSid>>

\* (a final key that is the key of the registration, whatever was captured since)
FinalSessionIdAtSpawn(r) == r.processKey

\* The records the CLI writes, one per line, as their tokens
InitRecord(session_id) == <<"{", "system", "init", session_id, "}">>
JsonRecord(type) == <<"{", type, "}">>

\* JSON.parse(line) returns: the text is a whole record, from its opening brace to
\* its closing one
JsonParses(text) == Len(text) >= 2 /\ text[1] = "{" /\ text[Len(text)] = "}"

\* the text of a piece of a record
RECURSIVE Text(_)
Text(tokens) == IF tokens = << >> THEN "" ELSE Head(tokens) \o " " \o Text(Tail(tokens))

\* the body of the stdout handler for one piece of a data chunk (one element of
\* rawOutput.split('\n')): a piece that parses is handled by its type, any other is
\* forwarded as raw text
HandlePiece(i, piece) ==
    IF JsonParses(piece)
    THEN IF piece[2] = "system" THEN StdoutInit(i, piece[4]) ELSE StdoutJson(i, piece[2])
    ELSE /\ inv' = [inv EXCEPT ![i] = WsSend(@, [type |-> "claude-output",
                                                 data |-> Text(piece)])]
         /\ UNCHANGED <<now, activeClaudeProcesses, nextSid>>

\* stdout 'data' with the first cut tokens of a record the process wrote as one
\* line: the whole line when cut is its length, else the pipe delivers the rest
\* with a later 'data' event
StdoutData(i, record, cut) ==
    /\ CanWrite(i)
    /\ inv[i].rest = << >>
    /\ cut \in 1..Len(record)
    /\ IF cut = Len(record)
       THEN HandlePiece(i, record)
       ELSE /\ ~JsonParses(SubSeq(record, 1, cut))
            /\ inv' = [inv EXCEPT ![i] =
                         [WsSend(ReadLine(@, record[2] = "system" /\ record[4] # Null),
                                 [type |-> "claude-output",
                                  data |-> Text(SubSeq(record, 1, cut))])
                            EXCEPT !.rest = SubSeq(record, cut + 1, Len(record))]]
            /\ nextSid' = IF record[2] = "system" /\ record[4] # Null
                               /\ record[4] \notin IssuedSids
                          THEN nextSid + 1 ELSE nextSid
            /\ UNCHANGED <<now, activeClaudeProcesses>>

\* stdout 'data' with the rest of a line
StdoutRest(i) ==
    /\ inv[i].pc = "running"
    /\ inv[i].proc \in {"alive", "killed"}
    /\ inv[i].rest # << >>
    /\ ~JsonParses(inv[i].rest)
    /\ inv' = [inv EXCEPT ![i] =
                  [WsSend(@, [type |-> "claude-output", data |-> Text(inv[i].rest)])
                     EXCEPT !.rest = << >>]]
    /\ UNCHANGED <<now, activeClaudeProcesses, nextSid>>

\* const finalSessionId = capturedSessionId || sessionId || processKey
FinalSessionId(r) == Or(r.capturedSessionId, Or(r.sessionId, r.processKey))

\* resolve() / reject(): a promise keeps its first outcome
Settle(r, outcome, error) ==
    IF r.outcome = "pending"
    THEN [r EXCEPT !.outcome = outcome, !.error = error, !.settles = @ + 1]
    ELSE [r EXCEPT !.settles = @ + 1]

\* new Error(`Claude CLI exited with code ${code}`).message, as its words
CloseError(code, signal) == <<"Claude", "CLI", "exited", "with", "code", CodeText(code)>>

\* How a process can end: with an exit code, or by a signal (code null).  SIGTERM is
\* what abortClaudeSession sends; SIGINT is how the CLI ends itself.
Exits(r) ==
    IF r.proc = "errored"
    THEN {<<SpawnErrno, Null>>}
    ELSE {<<c, Null>> : c \in ExitCodes}
           \cup {<<NoCode, "SIGINT">>}
           \cup (IF r.proc = "killed" THEN {<<NoCode, "SIGTERM">>} ELSE {})

\* claudeProcess.on('close'), up to its first await: the registry entry is deleted
Close(i, code, signal) ==
    /\ inv[i].pc = "running"
    /\ inv[i].proc \in {"alive", "killed", "errored"}
    /\ <<code, signal>> \in Exits(inv[i])
    /\ inv' = [inv EXCEPT ![i].pc = "cleanup", ![i].proc = "exited",
                          ![i].code = code, ![i].signal = signal]
    /\ activeClaudeProcesses' = MapDelete(activeClaudeProcesses, FinalSessionId(inv[i]))
    /\ UNCHANGED <<now, nextSid>>

\* (a close handler that resolves whatever the exit code)
CloseAlwaysResolves(i) ==
    /\ inv[i].pc = "cleanup"
    /\ LET r == WsSend([inv[i] EXCEPT !.pc = "closed"],
                       [type |-> "claude-complete", data |-> CodeText(inv[i].code)])
       IN inv' = [inv EXCEPT ![i] = Settle(r, "resolved", <<>>)]
    /\ UNCHANGED <<now, activeClaudeProcesses, nextSid>>

\* the rest of the close handler, after the cleanup of the temporary files
CloseSettle(i) ==
    /\ inv[i].pc = "cleanup"
    /\ LET r == WsSend([inv[i] EXCEPT !.pc = "closed"],
                       [type |-> "claude-complete", data |-> CodeText(inv[i].code)])
       IN inv' = [inv EXCEPT ![i] =
                     IF r.code = 0
                     THEN Settle(r, "resolved", <<>>)
                     ELSE Settle(r, "rejected", CloseError(r.code, r.signal))]
    /\ UNCHANGED <<now, activeClaudeProcesses, nextSid>>

\* claudeProcess.on('error'): the spawn failed
ErrorEvent(i) ==
    /\ inv[i].pc = "running"
    /\ inv[i].proc = "failed"
    /\ LET r == WsSend([inv[i] EXCEPT !.proc = "errored"],
                       [type |-> "claude-error", data |-> "spawn"])
       IN inv' = [inv EXCEPT ![i] = Settle(r, "rejected", <<"spawn", "ENOENT">>)]
    /\ activeClaudeProcesses' = MapDelete(activeClaudeProcesses, FinalSessionId(inv[i]))
    /\ UNCHANGED <<now, nextSid>>

\* process.kill('SIGTERM') on the process object of invocation i
Kill(r) == IF r.proc = "alive" THEN [r EXCEPT !.proc = "killed"] ELSE r

\* The keys a caller can pass to abortClaudeSession
Keys == PriorSids \cup IssuedSids \cup {ToString(t) : t \in 0..MaxClock}

\* const process = activeClaudeProcesses.get(sessionId): the invocation whose process
\* is stored under the key, NoOwner for undefined
AbortTarget(sessionId) ==
    IF sessionId \in Registered THEN activeClaudeProcesses[sessionId] ELSE NoOwner

\* the value abortClaudeSession returns: if (process) ... return true; return false
AbortReturns(sessionId) == AbortTarget(sessionId) # NoOwner

\* (an abort that also rejects the invocation on the spot)
AbortSettles(sessionId) ==
    /\ sessionId \in Keys
    /\ IF AbortReturns(sessionId)
       THEN /\ inv' = [inv EXCEPT ![AbortTarget(sessionId)] =
                           Settle(Kill(@), "rejected", <<"aborted">>)]
            /\ activeClaudeProcesses' = MapDelete(activeClaudeProcesses, sessionId)
       ELSE UNCHANGED <<inv, activeClaudeProcesses>>
    /\ UNCHANGED <<now, nextSid>>

\* (an abort that signals the process and leaves its key in the registry)
AbortKeepsKey(sessionId) ==
    /\ sessionId \in Keys
    /\ IF AbortReturns(sessionId)
       THEN /\ inv' = [inv EXCEPT ![AbortTarget(sessionId)] = Kill(@)]
            /\ activeClaudeProcesses' = activeClaudeProcesses
       ELSE UNCHANGED <<inv, activeClaudeProcesses>>
    /\ UNCHANGED <<now, nextSid>>

abortClaudeSession(sessionId) ==
    /\ sessionId \in Keys
    /\ IF AbortReturns(sessionId)
       THEN /\ inv' = [inv EXCEPT ![AbortTarget(sessionId)] = Kill(@)]
            /\ activeClaudeProcesses' = MapDelete(activeClaudeProcesses, sessionId)
       ELSE UNCHANGED <<inv, activeClaudeProcesses>>
    /\ UNCHANGED <<now, nextSid>>

\* a process that was spawned and has not exited
Live(i) == inv[i].proc \in {"alive", "killed"}

----------------------------------------------------------------------------
(* database/db.js: feishuDb, the feishu_sessions table *)

NoRow == [exists |-> FALSE, id |-> 0, claude_session_id |-> Null, last_activity |-> 0]

\* id INTEGER PRIMARY KEY AUTOINCREMENT: one more than the largest id given so far
\* (rows are never deleted)
NextRowId(table) ==
    LET ids == {table[c].id : c \in DOMAIN table}
    IN 1 + CHOOSE n \in ids : \A k \in ids : k <= n

\* get-by-conversation-key
getSession(conversationId) == db[conversationId]

\* create: conversation_id is UNIQUE NOT NULL, so a second row is refused
createSession(table, conversationId, claudeSessionId, time) ==
    [table EXCEPT ![conversationId] =
        [exists |-> TRUE, id |-> NextRowId(table), claude_session_id |-> claudeSessionId,
         last_activity |-> time]]

\* update-process-session-id
updateClaudeSessionId(table, conversationId, claudeSessionId) ==
    [table EXCEPT ![conversationId].claude_session_id = claudeSessionId]

\* update-last-activity
updateSessionActivity(table, conversationId, time) ==
    [table EXCEPT ![conversationId].last_activity = time]

\* feishu_message_log.  isMessageProcessed: the message id has been logged
MessageIds == {"om-1", "om-2"}

isMessageProcessed(messageId) == messageId \in messageLog

\* logMessage: the unique index idx_message_id_processed refuses a message id that
\* is logged already; a row without message id is always taken
LogRefused(messageId) == messageId # Null /\ messageId \in messageLog

logMessage(log, messageId) == IF messageId = Null THEN log ELSE log \cup {messageId}

----------------------------------------------------------------------------
(* feishu-session.js: FeishuSessionManager *)

\* (a busy check that trusts the stored id)
isSessionBusyStored(session) ==
    IF ~session.exists \/ session.claude_session_id = Null
    THEN FALSE
    ELSE TRUE

\* isSessionBusy(session)
isSessionBusy(session) ==
    IF ~session.exists \/ session.claude_session_id = Null
    THEN FALSE
    ELSE isClaudeSessionActive(session.claude_session_id)

\* no direct call of isSessionBusy so far
NoBusy == [called |-> FALSE, session |-> NoRow, result |-> FALSE]

\* the records a direct call can be given: none, a fresh one, one with any id
Records ==
    {NoRow} \cup {[exists |-> TRUE, id |-> 1, claude_session_id |-> sid, last_activity |-> 0] :
                    sid \in {Null} \cup AllSids}

\* manager.isSessionBusy(session) called directly: it reads the registry and returns
IsSessionBusyCall(session) ==
    /\ session \in Records
    /\ hist' = [hist EXCEPT !.busy = [called |-> TRUE, session |-> session,
                                      result |-> isSessionBusy(session)]]
    /\ UNCHANGED <<db, msg, isRunning, messageLog>>
    /\ UNCHANGED runnerVars
    /\ UNCHANGED writerVars

\* What getOrCreateSession does with a row it found: updateSessionActivity, and the
\* row is returned as it was read.
FoundSession(table, conversationId, time) ==
    [store |-> updateSessionActivity(table, conversationId, time),
     session |-> getSession(conversationId)]

----------------------------------------------------------------------------
(* feishu-ws.js: FeishuService *)

\* what getOrCreateSession met while it provisioned: nothing, when the row was found
NoSetup == [dir |-> Null, git |-> TRUE, project |-> TRUE]

NoMsg ==
    [pc |-> "none", conv |-> Null, session |-> NoRow, inv |-> 0, result |-> Null,
     retActive |-> FALSE, retStored |-> Null, messageId |-> Null, setup |-> NoSetup]

\* history: the value getOrCreateSession returned, whether its id was in the registry
\* at that moment, and the id the store held then
Returned(r, session, table) ==
    [r EXCEPT !.pc = "confirm",
              !.session = session,
              !.retActive = isClaudeSessionActive(session.claude_session_id),
              !.retStored = table[r.conv].claude_session_id]

\* start(): loadConfig, the session manager and the client are created, the client
\* is started with handleMessage.  The store is not touched.
StartStore(table) == table

start ==
    /\ ~isRunning
    /\ isRunning' = TRUE
    /\ db' = StartStore(db)
    /\ UNCHANGED <<msg, hist, messageLog>>
    /\ UNCHANGED runnerVars
    /\ UNCHANGED writerVars

\* The service process ends and with it everything it held in memory: the registry,
\* the pending handlers and invocations; its child processes are ended too.  The
\* store stays.
Restart ==
    /\ isRunning
    /\ hist.restarts < MaxRestarts
    /\ isRunning' = FALSE
    /\ activeClaudeProcesses' = << >>
    /\ inv' = [i \in Invs |-> NoInv]
    /\ msg' = [m \in Msgs |-> NoMsg]
    /\ hist' = [hist EXCEPT !.restarts = hist.restarts + 1,
                            !.stale = {db[c].claude_session_id : c \in Convs} \ {Null}]
    /\ UNCHANGED <<now, nextSid, db, messageLog>>
    /\ UNCHANGED writerVars

\* handleMessage(event), up to the first suspension inside getOrCreateSession: a row
\* that exists is returned at once; otherwise the directory is provisioned first.
handleMessage(m, c) ==
    /\ isRunning
    /\ msg[m].pc = "none"
    /\ \A k \in Msgs : k < m => msg[k].pc # "none"
    /\ IF getSession(c).exists
       THEN LET found == FoundSession(db, c, now) IN
            /\ db' = found.store
            /\ msg' = [msg EXCEPT ![m] =
                          Returned([NoMsg EXCEPT !.conv = c], found.session, found.store)]
       ELSE /\ msg' = [msg EXCEPT ![m] = [NoMsg EXCEPT !.pc = "provision", !.conv = c]]
            /\ db' = db
    /\ UNCHANGED <<isRunning, hist, messageLog>>
    /\ UNCHANGED runnerVars
    /\ UNCHANGED writerVars

\* (a create that replaces the row of the conversation when there is one)
ProvisionedReplacing(m) ==
    /\ msg[m].pc = "provision"
    /\ \E dirOk \in BOOLEAN :
         IF dirOk
         THEN LET store == createSession(db, msg[m].conv, Null, now) IN
              /\ db' = store
              /\ msg' = [msg EXCEPT ![m] = Returned(@, store[msg[m].conv], store)]
         ELSE /\ msg' = [msg EXCEPT ![m].pc = "done", ![m].result = "system-error"]
              /\ db' = db
    /\ UNCHANGED <<isRunning, hist, messageLog>>
    /\ UNCHANGED runnerVars
    /\ UNCHANGED writerVars

\* handleMessage(event) for a message that arrives when an earlier handler has
\* ended: that handler holds nothing any more, its record is given to the new one.
handleNextMessage(m, c) ==
    /\ isRunning
    /\ msg[m].pc = "done"
    /\ IF getSession(c).exists
       THEN LET found == FoundSession(db, c, now) IN
            /\ db' = found.store
            /\ msg' = [msg EXCEPT ![m] =
                          Returned([NoMsg EXCEPT !.conv = c], found.session, found.store)]
       ELSE /\ msg' = [msg EXCEPT ![m] = [NoMsg EXCEPT !.pc = "provision", !.conv = c]]
            /\ db' = db
    /\ UNCHANGED <<isRunning, hist, messageLog>>
    /\ UNCHANGED runnerVars
    /\ UNCHANGED writerVars

\* ensureDirectoryExists: a directory that is there is used as it is, one that is
\* absent is made, any other access error is thrown on
DirStates == {"exists", "absent", "denied"}

ensureDirectoryExists(dir) == dir # "denied"

\* (a provisioning that gives up when git or the project registration fails)
ProvisionStrict(m, dir, gitOk, projectOk) ==
    /\ msg[m].pc = "provision"
    /\ dir \in DirStates
    /\ IF ensureDirectoryExists(dir) /\ gitOk /\ projectOk /\ ~getSession(msg[m].conv).exists
       THEN LET store == createSession(db, msg[m].conv, Null, now) IN
            /\ db' = store
            /\ msg' = [msg EXCEPT ![m] =
                          Returned([@ EXCEPT !.setup = [dir |-> dir, git |-> gitOk,
                                                        project |-> projectOk]],
                                   store[msg[m].conv], store)]
       ELSE /\ msg' = [msg EXCEPT ![m].pc = "done", ![m].result = "system-error"]
            /\ db' = db
    /\ UNCHANGED <<isRunning, hist, messageLog>>
    /\ UNCHANGED runnerVars
    /\ UNCHANGED writerVars

\* getOrCreateSession from ensureDirectoryExists to its return.  initGitRepository
\* resolves whatever git does, a failure of addProjectManually is caught and logged:
\* neither outcome is looked at.  ensureDirectoryExists can throw, and so can
\* createSession when the row exists by now; handleMessage catches both and reports
\* a system error.
Provision(m, dir, gitOk, projectOk) ==
    /\ msg[m].pc = "provision"
    /\ dir \in DirStates
    /\ IF ensureDirectoryExists(dir) /\ ~getSession(msg[m].conv).exists
       THEN LET store == createSession(db, msg[m].conv, Null, now) IN
            /\ db' = store
            /\ msg' = [msg EXCEPT ![m] =
                          Returned([@ EXCEPT !.setup = [dir |-> dir, git |-> gitOk,
                                                        project |-> projectOk]],
                                   store[msg[m].conv], store)]
       ELSE /\ msg' = [msg EXCEPT ![m].pc = "done", ![m].result = "system-error"]
            /\ db' = db
    /\ UNCHANGED <<isRunning, hist, messageLog>>
    /\ UNCHANGED runnerVars
    /\ UNCHANGED writerVars

Provisioned(m) ==
    \E dir \in DirStates : \E gitOk, projectOk \in BOOLEAN : Provision(m, dir, gitOk, projectOk)

\* handleMessage after the confirmation message (sent or failed): the busy check,
\* then the writer is created with the row's id and queryClaude is called.
Confirmed(m) ==
    /\ msg[m].pc = "confirm"
    /\ IF isSessionBusy(msg[m].session)
       THEN /\ msg' = [msg EXCEPT ![m].pc = "done", ![m].result = "busy"]
            /\ inv' = inv
       ELSE \E i \in Invs :
              /\ queryClaude(i, msg[m].session.claude_session_id, m,
                             msg[m].session.claude_session_id)
              /\ msg' = [msg EXCEPT ![m].pc = "invoking", ![m].inv = i]
    /\ UNCHANGED <<now, activeClaudeProcesses, nextSid, db, isRunning, hist, messageLog>>
    /\ UNCHANGED writerVars

\* (a handler that stores the id only when the row held one before)
SettledKeepsNull(m) ==
    /\ msg[m].pc = "invoking"
    /\ inv[msg[m].inv].outcome # "pending"
    /\ LET r == inv[msg[m].inv]
           captured == msg[m].session.claude_session_id
       IN IF r.outcome = "resolved"
          THEN /\ db' = IF r.wsSessionId # Null /\ captured # Null /\ r.wsSessionId # captured
                        THEN updateClaudeSessionId(db, msg[m].conv, r.wsSessionId)
                        ELSE db
               /\ msg' = [msg EXCEPT ![m].pc = "completing"]
          ELSE /\ db' = db
               /\ msg' = [msg EXCEPT ![m].pc = "done", ![m].result = "error"]
    /\ UNCHANGED <<isRunning, hist, messageLog>>
    /\ UNCHANGED runnerVars
    /\ UNCHANGED writerVars

\* handleMessage after queryClaude has settled.  Resolved: a writer.sessionId that
\* differs from the id of the row is stored, then writer.complete() is awaited.
\* Rejected: the error is reported, the store is left alone.
Settled(m) ==
    /\ msg[m].pc = "invoking"
    /\ inv[msg[m].inv].outcome # "pending"
    /\ LET r == inv[msg[m].inv]
           captured == msg[m].session.claude_session_id
       IN IF r.outcome = "resolved"
          THEN /\ db' = IF r.wsSessionId # Null /\ r.wsSessionId # captured
                        THEN updateClaudeSessionId(db, msg[m].conv, r.wsSessionId)
                        ELSE db
               /\ msg' = [msg EXCEPT ![m].pc = "completing"]
          ELSE /\ db' = db
               /\ msg' = [msg EXCEPT ![m].pc = "done", ![m].result = "error"]
    /\ UNCHANGED <<isRunning, hist, messageLog>>
    /\ UNCHANGED runnerVars
    /\ UNCHANGED writerVars

\* handleMessage after writer.complete(): the outcome is logged, updateSessionActivity
Completed(m) ==
    /\ msg[m].pc = "completing"
    /\ db' = updateSessionActivity(db, msg[m].conv, now)
    /\ msg' = [msg EXCEPT ![m].pc = "done", ![m].result = "ok"]
    /\ UNCHANGED <<isRunning, hist, messageLog>>
    /\ UNCHANGED runnerVars
    /\ UNCHANGED writerVars

----------------------------------------------------------------------------
(* feishu-webhook.js: handleMessageEvent *)

\* handleMessageEvent(data) up to its first await: a message id that is logged
\* already ends the handler; otherwise the member data are collected.
handleMessageEvent(m, c, messageId) ==
    /\ msg[m].pc = "none"
    /\ \A k \in Msgs : k < m => msg[k].pc # "none"
    /\ IF messageId # Null /\ isMessageProcessed(messageId)
       THEN msg' = [msg EXCEPT ![m] = [NoMsg EXCEPT !.pc = "done", !.conv = c,
                                                    !.messageId = messageId,
                                                    !.result = "duplicate"]]
       ELSE msg' = [msg EXCEPT ![m] = [NoMsg EXCEPT !.pc = "collect", !.conv = c,
                                                    !.messageId = messageId]]
    /\ UNCHANGED <<db, isRunning, hist, messageLog>>
    /\ UNCHANGED runnerVars
    /\ UNCHANGED writerVars

\* after the collecting and the display name: getOrCreateSession up to its first
\* suspension (as in handleMessage)
EventSession(m) ==
    /\ msg[m].pc = "collect"
    /\ IF getSession(msg[m].conv).exists
       THEN LET found == FoundSession(db, msg[m].conv, now) IN
            /\ db' = found.store
            /\ msg' = [msg EXCEPT ![m] = Returned(@, found.session, found.store)]
       ELSE /\ msg' = [msg EXCEPT ![m].pc = "provision"]
            /\ db' = db
    /\ UNCHANGED <<isRunning, hist, messageLog>>
    /\ UNCHANGED runnerVars
    /\ UNCHANGED writerVars

\* (a log that takes a message id a second time)
EventConfirmedNoIndex(m) ==
    /\ msg[m].pc = "confirm"
    /\ IF isSessionBusy(msg[m].session)
       THEN /\ msg' = [msg EXCEPT ![m].pc = "done", ![m].result = "busy"]
            /\ UNCHANGED <<inv, messageLog>>
       ELSE /\ messageLog' = logMessage(messageLog, msg[m].messageId)
            /\ \E fileCommand \in BOOLEAN :
                 IF fileCommand
                 THEN /\ msg' = [msg EXCEPT ![m].pc = "done", ![m].result = "file"]
                      /\ inv' = inv
                 ELSE \E i \in Invs :
                        /\ queryClaude(i, msg[m].session.claude_session_id, m,
                                       msg[m].session.claude_session_id)
                        /\ msg' = [msg EXCEPT ![m].pc = "invoking", ![m].inv = i]
    /\ UNCHANGED <<now, activeClaudeProcesses, nextSid, db, isRunning, hist>>
    /\ UNCHANGED writerVars

\* after the working directory was looked at: the busy check, then logMessage with
\* the message id, whose refusal ends the handler in its outer catch; a file command
\* is served without the engine, anything else goes to queryClaude.
EventConfirmed(m) ==
    /\ msg[m].pc = "confirm"
    /\ IF isSessionBusy(msg[m].session)
       THEN /\ msg' = [msg EXCEPT ![m].pc = "done", ![m].result = "busy"]
            /\ UNCHANGED <<inv, messageLog>>
       ELSE IF LogRefused(msg[m].messageId)
       THEN /\ msg' = [msg EXCEPT ![m].pc = "done", ![m].result = "system-error"]
            /\ UNCHANGED <<inv, messageLog>>
       ELSE /\ messageLog' = logMessage(messageLog, msg[m].messageId)
            /\ \E fileCommand \in BOOLEAN :
                 IF fileCommand
                 THEN /\ msg' = [msg EXCEPT ![m].pc = "done", ![m].result = "file"]
                      /\ inv' = inv
                 ELSE \E i \in Invs :
                        /\ queryClaude(i, msg[m].session.claude_session_id, m,
                                       msg[m].session.claude_session_id)
                        /\ msg' = [msg EXCEPT ![m].pc = "invoking", ![m].inv = i]
    /\ UNCHANGED <<now, activeClaudeProcesses, nextSid, db, isRunning, hist>>
    /\ UNCHANGED writerVars

----------------------------------------------------------------------------
(* feishu-message-writer.js: FeishuMessageWriter *)

FlushInterval == 6      \* this.flushInterval = 3000 (ms)
FlushThreshold == 2     \* this.flushThreshold = 2000 (characters)
MaxLength == 5          \* splitMessage(text, maxLength = 5000)
ChunkDelay == 1         \* setTimeout(resolve, 500) between the chunks of one flush

MaxEvents == 2          \* ws.send calls on one writer
MaxFails == 1           \* sendTextMessage calls that fail
MaxTime == 7            \* the writer is watched for this long

\* A character of the text is [id, ch]: ch is what splitMessage looks at ("x" for
\* any character but the space and the newline), id its place in everything appended.

\* The texts one event can carry: none (an event without text), one unit (below the
\* threshold), two (the threshold), and six (above the chunk bound) with and without
\* a newline or a space near the bound.
Texts ==
    {<< >>,
     <<"x">>,
     <<"x", "x">>,
     <<"x", "x", "x", "x", "x", "x">>,
     <<"x", "x", "x", "x", "\n", "x">>,
     <<"x", "x", "x", "x", "x", " ">>}

Stamp(text, from) == [k \in 1..Len(text) |-> [id |-> from + k, ch |-> text[k]]]

Min(a, b) == IF a <= b THEN a ELSE b

\* String.prototype.lastIndexOf(ch, fromIndex), 0-based, -1 when there is none
LastIndexOf(text, ch, fromIndex) ==
    LET hits == {p \in 0..Min(fromIndex, Len(text) - 1) : text[p + 1].ch = ch}
    IN IF hits = {} THEN -1 ELSE CHOOSE p \in hits : \A q \in hits : q <= p

\* String.prototype.substring(from, to), 0-based, to exclusive
Substring(text, from, to) == SubSeq(text, from + 1, Min(to, Len(text)))

\* the split position of the loop of splitMessage: idx > maxLength * 0.8
SplitIndex(remaining, maxLength) ==
    LET nearbyNewline == LastIndexOf(remaining, "\n", maxLength)
        nearbySpace == LastIndexOf(remaining, " ", maxLength)
    IN IF nearbyNewline * 10 > maxLength * 8 THEN nearbyNewline + 1
       ELSE IF nearbySpace * 10 > maxLength * 8 THEN nearbySpace + 1
       ELSE maxLength

RECURSIVE SplitLoop(_, _)
SplitLoop(remaining, maxLength) ==
    IF Len(remaining) = 0 THEN << >>
    ELSE IF Len(remaining) <= maxLength THEN <<remaining>>
    ELSE LET splitIndex == SplitIndex(remaining, maxLength)
         IN <<Substring(remaining, 0, splitIndex)>>
              \o SplitLoop(Substring(remaining, splitIndex, Len(remaining)), maxLength)

splitMessage(text, maxLength) ==
    IF Len(text) <= maxLength THEN <<text>> ELSE SplitLoop(text, maxLength)

\* no direct call of splitMessage
NoSplit == [text |-> << >>, maxLength |-> 0, chunks |-> << >>, pc |-> "none"]

\* The texts of a direct call, character by character: up to MaxTextLen characters,
\* at most two of them a newline or a space, at any place.
MaxTextLen == 12
MaxBound == 10          \* the maxLength of a direct call is 1..MaxBound

Boundary == {"\n", " "}

SplitTexts ==
    {[k \in 1..n |-> IF k = p THEN a ELSE IF k = q THEN b ELSE "x"] :
        <<n, p, q, a, b>> \in {t \in (0..MaxTextLen) \X (0..MaxTextLen) \X (0..MaxTextLen)
                                       \X Boundary \X Boundary :
                                  t[2] <= t[1] /\ t[3] <= t[1]}}

\* writer.splitMessage(text, maxLength) is about to be called
SplitCalled(text, maxLength) ==
    [text |-> Stamp(text, 0), maxLength |-> maxLength, chunks |-> << >>, pc |-> "called"]

\* the call runs to its return
SplitReturn ==
    /\ split.pc = "called"
    /\ split' = [split EXCEPT !.chunks = splitMessage(split.text, split.maxLength),
                              !.pc = "returned"]
    /\ UNCHANGED <<now, activeClaudeProcesses, inv, nextSid, db, msg, isRunning, hist,
                   messageLog, buffer, lastFlushTime, flushTimer, timers, flushes, completePc, io>>

\* a call of feishuClient.sendTextMessage(chatId, chunk)
SendTextMessage(log, chunk) == [log EXCEPT !.sent = Append(@, chunk)]

\* clearTimeout(handle): the pending timer of that handle, if any, is dropped
RECURSIVE clearTimeout(_, _)
clearTimeout(pending, handle) ==
    IF pending = << >> THEN << >>
    ELSE IF Head(pending) = handle THEN Tail(pending)
    ELSE <<Head(pending)>> \o clearTimeout(Tail(pending), handle)

\* the timers left pending by flush(): untouched when the buffer is empty
FlushTimers(buf) == IF Len(buf) = 0 THEN timers ELSE clearTimeout(timers, flushTimer)

\* (a flush that takes the buffer without emptying it)
FlushKeeps(buf, awaited, log) ==
    IF Len(buf) = 0
    THEN /\ buffer' = buf
         /\ UNCHANGED <<lastFlushTime, flushTimer, flushes>>
         /\ io' = log
    ELSE LET chunks == splitMessage(buf, MaxLength) IN
         /\ flushTimer' = NoTimer
         /\ buffer' = buf
         /\ lastFlushTime' = now
         /\ flushes' = Append(flushes,
                [text |-> buf, chunks |-> chunks, next |-> 1, phase |-> "send",
                 due |-> 0, awaited |-> awaited, call |-> Len(log.sent) + 1])
         /\ io' = SendTextMessage(log, chunks[1])

\* flush() up to its first await.  With an empty buffer it returns at once.  Otherwise
\* the timer is cleared, the buffer is taken and emptied, and the first chunk is
\* handed to sendTextMessage.
Flush(buf, awaited, log) ==
    IF Len(buf) = 0
    THEN /\ buffer' = buf
         /\ UNCHANGED <<lastFlushTime, flushTimer, flushes>>
         /\ io' = log
    ELSE LET chunks == splitMessage(buf, MaxLength) IN
         /\ flushTimer' = NoTimer
         /\ buffer' = << >>
         /\ lastFlushTime' = now
         /\ flushes' = Append(flushes,
                [text |-> buf, chunks |-> chunks, next |-> 1, phase |-> "send",
                 due |-> 0, awaited |-> awaited, call |-> Len(log.sent) + 1])
         /\ io' = SendTextMessage(log, chunks[1])

\* (a size trigger that needs more than the threshold)
flushIfOver(buf, log) ==
    LET timeSinceLastFlush == now - lastFlushTime
        shouldFlushByTime == timeSinceLastFlush >= FlushInterval
        shouldFlushBySize == Len(buf) > FlushThreshold
    IN IF shouldFlushByTime \/ shouldFlushBySize
       THEN Flush(buf, FALSE, log) /\ timers' = FlushTimers(buf)
       ELSE /\ buffer' = buf
            /\ flushTimer' = IF flushTimer = NoTimer
                             THEN now + (FlushInterval - timeSinceLastFlush)
                             ELSE flushTimer
            /\ timers' = IF flushTimer = NoTimer
                         THEN Append(timers, now + (FlushInterval - timeSinceLastFlush))
                         ELSE timers
            /\ UNCHANGED <<lastFlushTime, flushes>>
            /\ io' = log

\* (a flushIfNeeded that arms a timer whether or not one is pending)
flushIfNeededRearm(buf, log) ==
    LET timeSinceLastFlush == now - lastFlushTime
        shouldFlushByTime == timeSinceLastFlush >= FlushInterval
        shouldFlushBySize == Len(buf) >= FlushThreshold
    IN IF shouldFlushByTime \/ shouldFlushBySize
       THEN Flush(buf, FALSE, log) /\ timers' = FlushTimers(buf)
       ELSE /\ buffer' = buf
            /\ flushTimer' = now + (FlushInterval - timeSinceLastFlush)
            /\ timers' = Append(timers, now + (FlushInterval - timeSinceLastFlush))
            /\ UNCHANGED <<lastFlushTime, flushes>>
            /\ io' = log

\* flushIfNeeded()
flushIfNeeded(buf, log) ==
    LET timeSinceLastFlush == now - lastFlushTime
        shouldFlushByTime == timeSinceLastFlush >= FlushInterval
        shouldFlushBySize == Len(buf) >= FlushThreshold
    IN IF shouldFlushByTime \/ shouldFlushBySize
       THEN Flush(buf, FALSE, log) /\ timers' = FlushTimers(buf)
       ELSE /\ buffer' = buf
            /\ flushTimer' = IF flushTimer = NoTimer
                             THEN now + (FlushInterval - timeSinceLastFlush)
                             ELSE flushTimer
            /\ timers' = IF flushTimer = NoTimer
                         THEN Append(timers, now + (FlushInterval - timeSinceLastFlush))
                         ELSE timers
            /\ UNCHANGED <<lastFlushTime, flushes>>
            /\ io' = log

\* send(data): the text of the message, if it has any, is appended (appendText), then
\* flushIfNeeded
WriterSend(text) ==
    /\ completePc = "idle"
    /\ io.events < MaxEvents
    /\ LET stamped == Stamp(text, Len(io.appended))
           log == [io EXCEPT !.events = @ + 1, !.appended = @ \o stamped]
       IN flushIfNeeded(buffer \o stamped, log)
    /\ UNCHANGED <<now, completePc>>

\* the callback of the flush timer
TimerFire ==
    /\ \E k \in DOMAIN timers :
          /\ now >= timers[k]
          /\ timers' = SubSeq(timers, 1, k - 1) \o SubSeq(timers, k + 1, Len(timers))
    /\ IF Len(buffer) > 0
       THEN Flush(buffer, FALSE, io) /\ flushTimer' = NoTimer
       ELSE /\ flushTimer' = NoTimer
            /\ UNCHANGED <<buffer, lastFlushTime, flushes, io>>
    /\ UNCHANGED <<now, completePc>>

\* flush f has ended: it leaves the list of running flushes, and complete() returns
\* if it was waiting for it
EndFlush(f) ==
    /\ flushes' = SubSeq(flushes, 1, f - 1) \o SubSeq(flushes, f + 1, Len(flushes))
    /\ completePc' = IF flushes[f].awaited THEN "returned" ELSE completePc

\* flush f has left its try block without an error: its text is recorded as done
Delivered(log, f) == [log EXCEPT !.done = @ \o flushes[f].text]

\* (a flush without its catch: the error of the send leaves flush() as a rejection,
\* which complete() passes on when it awaits the flush, and which nobody handles
\* when flushIfNeeded or the timer started it)
SendDoneUncaught(f, ok) ==
    /\ f \in DOMAIN flushes
    /\ flushes[f].phase = "send"
    /\ IF ok
       THEN /\ IF Len(flushes[f].chunks) > 1
               THEN /\ flushes' = [flushes EXCEPT ![f].phase = "delay",
                                                  ![f].due = now + ChunkDelay]
                    /\ completePc' = completePc
                    /\ io' = io
               ELSE /\ EndFlush(f)
                    /\ io' = Delivered(io, f)
            /\ buffer' = buffer
       ELSE /\ io.fails < MaxFails
            /\ io' = [io EXCEPT !.fails = @ + 1, !.failed = @ \cup {flushes[f].call},
                                !.unhandled = @ \/ ~flushes[f].awaited]
            /\ buffer' = buffer
            /\ flushes' = SubSeq(flushes, 1, f - 1) \o SubSeq(flushes, f + 1, Len(flushes))
            /\ completePc' = IF flushes[f].awaited THEN "rejected" ELSE completePc
    /\ UNCHANGED <<now, lastFlushTime, flushTimer, timers>>

\* flush() after 'await sendTextMessage(chunk)'.  Sent: with more than one chunk the
\* pacing delay follows, also after the last one.  Failed: the text taken by this
\* flush is put back in front of the buffer.
SendDone(f, ok) ==
    /\ f \in DOMAIN flushes
    /\ flushes[f].phase = "send"
    /\ IF ok
       THEN /\ IF Len(flushes[f].chunks) > 1
               THEN /\ flushes' = [flushes EXCEPT ![f].phase = "delay",
                                                  ![f].due = now + ChunkDelay]
                    /\ completePc' = completePc
                    /\ io' = io
               ELSE /\ EndFlush(f)
                    /\ io' = Delivered(io, f)
            /\ buffer' = buffer
       ELSE /\ io.fails < MaxFails
            /\ io' = [io EXCEPT !.fails = @ + 1, !.failed = @ \cup {flushes[f].call}]
            /\ buffer' = flushes[f].text \o buffer
            /\ EndFlush(f)
    /\ UNCHANGED <<now, lastFlushTime, flushTimer, timers>>

\* flush() after the pacing delay: the next chunk, or the end of the loop
DelayDone(f) ==
    /\ f \in DOMAIN flushes
    /\ flushes[f].phase = "delay"
    /\ now >= flushes[f].due
    /\ IF flushes[f].next < Len(flushes[f].chunks)
       THEN /\ flushes' = [flushes EXCEPT ![f].phase = "send", ![f].next = @ + 1,
                                              ![f].call = Len(io.sent) + 1]
            /\ io' = SendTextMessage(io, flushes[f].chunks[flushes[f].next + 1])
            /\ completePc' = completePc
       ELSE /\ EndFlush(f)
            /\ io' = Delivered(io, f)
    /\ UNCHANGED <<now, buffer, lastFlushTime, flushTimer, timers>>

\* (a complete() that clears the timer only on its way into flush)
completeLeavesTimer ==
    /\ completePc \in {"idle", "returned"}
    /\ LET log == [io EXCEPT !.completes = IF @ = "never" THEN "once" ELSE "again"] IN
       IF Len(buffer) > 0
       THEN /\ Flush(buffer, TRUE, log)
            /\ timers' = clearTimeout(timers, flushTimer)
            /\ completePc' = "waiting"
       ELSE /\ flushTimer' = flushTimer
            /\ timers' = timers
            /\ completePc' = "returned"
            /\ io' = log
            /\ UNCHANGED <<buffer, lastFlushTime, flushes>>
    /\ UNCHANGED now

\* complete(): the timer is cleared; a buffer that is not empty is flushed and the
\* flush awaited.  It can be called again once it has returned.
complete ==
    /\ completePc \in {"idle", "returned"}
    /\ LET log == [io EXCEPT !.completes = IF @ = "never" THEN "once" ELSE "again"] IN
       IF Len(buffer) > 0
       THEN /\ Flush(buffer, TRUE, log)
            /\ timers' = clearTimeout(timers, flushTimer)
            /\ completePc' = "waiting"
       ELSE /\ flushTimer' = NoTimer
            /\ timers' = clearTimeout(timers, flushTimer)
            /\ completePc' = "returned"
            /\ io' = log
            /\ UNCHANGED <<buffer, lastFlushTime, flushes>>
    /\ UNCHANGED now

\* the text handleMessage sends when queryClaude has rejected
FailureMessage == <<[id |-> 0, ch |-> "E"]>>

\* handleMessage's catch after queryClaude has rejected: the failure is reported
\* with client.sendTextMessage; the writer is left as it is (neither complete() nor
\* destroy() is called)
RejectedReported ==
    /\ completePc = "idle"
    /\ ~io.reported
    /\ io' = [SendTextMessage(io, FailureMessage) EXCEPT !.reported = TRUE]
    /\ UNCHANGED <<now, buffer, lastFlushTime, flushTimer, timers, flushes, completePc>>

\* time passes
WriterTick ==
    /\ now < MaxTime
    /\ now' = now + 1
    /\ UNCHANGED <<buffer, lastFlushTime, flushTimer, timers, flushes, completePc, io>>


----------------------------------------------------------------------------
(* Specifications *)

Init ==
    /\ now = 0
    /\ activeClaudeProcesses = << >>
    /\ inv = [i \in Invs |-> NoInv]
    /\ nextSid = 1
    /\ db = [c \in Convs |-> NoRow]
    /\ msg = [m \in Msgs |-> NoMsg]
    /\ isRunning = FALSE
    /\ messageLog = {}
    /\ hist = [restarts |-> 0, stale |-> {}, busy |-> NoBusy]
    /\ buffer = << >>
    /\ lastFlushTime = 0
    /\ flushTimer = NoTimer
    /\ timers = << >>
    /\ flushes = << >>
    /\ completePc = "idle"
    /\ io = [appended |-> << >>, sent |-> << >>, done |-> << >>, failed |-> {}, unhandled |-> FALSE, reported |-> FALSE,
             fails |-> 0,
             events |-> 0,
             completes |-> "never"]
    /\ split = NoSplit

\* The process runner with its registry, driven by direct calls of queryClaude and
\* abortClaudeSession (as the race-condition tests drive it).
Invoke(i, sessionId) ==
    /\ sessionId \in {Null} \cup PriorSids \cup IssuedSids
    /\ queryClaude(i, sessionId, NoOwner, Null)
    /\ UNCHANGED <<now, activeClaudeProcesses, nextSid>>

RunSpawn == \E i \in Invs : Spawn(i)
RunStdoutInit == \E i \in Invs : \E sid \in InitIds(i) : StdoutInit(i, sid)
RunStdoutJson == \E i \in Invs : \E t \in LineTypes : StdoutJson(i, t)
RunStdoutRaw == \E i \in Invs : StdoutRaw(i)
RunStderr == \E i \in Invs : StderrData(i)
RunClose == \E i \in Invs : \E e \in Exits(inv[i]) : Close(i, e[1], e[2])
RunCloseSettle == \E i \in Invs : CloseSettle(i)
RunError == \E i \in Invs : ErrorEvent(i)
RunAbort == \E k \in Keys : abortClaudeSession(k)

RunInvoke == \E i \in Invs : \E sid \in {Null} \cup IssuedSids : Invoke(i, sid)

Next ==
    \/ RunInvoke /\ UNCHANGED serviceVars /\ UNCHANGED writerVars
    \/ RunSpawn /\ UNCHANGED serviceVars /\ UNCHANGED writerVars
    \/ RunStdoutInit /\ UNCHANGED serviceVars /\ UNCHANGED writerVars
    \/ RunStdoutJson /\ UNCHANGED serviceVars /\ UNCHANGED writerVars
    \/ RunStdoutRaw /\ UNCHANGED serviceVars /\ UNCHANGED writerVars
    \/ RunStderr /\ UNCHANGED serviceVars /\ UNCHANGED writerVars
    \/ RunClose /\ UNCHANGED serviceVars /\ UNCHANGED writerVars
    \/ RunCloseSettle /\ UNCHANGED serviceVars /\ UNCHANGED writerVars
    \/ RunError /\ UNCHANGED serviceVars /\ UNCHANGED writerVars
    \/ RunAbort /\ UNCHANGED serviceVars /\ UNCHANGED writerVars

Spec == Init /\ [][Next]_vars

\* One call of queryClaude and everything its process can write, with the aborts and
\* the exits: what one invocation does with its own stream.  The handlers of an
\* invocation read and write the variables of their own closure only (and the
\* registry, which they never read back), so other invocations add nothing here.
RunInvokeFirst == \E sid \in {Null} \cup PriorSids \cup IssuedSids : Invoke(1, sid)

NextStream ==
    \/ RunInvokeFirst /\ UNCHANGED serviceVars /\ UNCHANGED writerVars
    \/ RunSpawn /\ UNCHANGED serviceVars /\ UNCHANGED writerVars
    \/ RunStdoutInit /\ UNCHANGED serviceVars /\ UNCHANGED writerVars
    \/ RunStdoutJson /\ UNCHANGED serviceVars /\ UNCHANGED writerVars
    \/ RunStdoutRaw /\ UNCHANGED serviceVars /\ UNCHANGED writerVars
    \/ RunStderr /\ UNCHANGED serviceVars /\ UNCHANGED writerVars
    \/ RunClose /\ UNCHANGED serviceVars /\ UNCHANGED writerVars
    \/ RunCloseSettle /\ UNCHANGED serviceVars /\ UNCHANGED writerVars
    \/ RunError /\ UNCHANGED serviceVars /\ UNCHANGED writerVars
    \/ RunAbort /\ UNCHANGED serviceVars /\ UNCHANGED writerVars

SpecStream == Init /\ [][NextStream]_vars

\* One call of queryClaude whose process writes records, each as one line, which the
\* pipe hands over whole or in two data chunks; the process exits when its lines
\* have been delivered.
Records1 ==
    {InitRecord(sid) : sid \in InitIds(1)} \cup {JsonRecord(t) : t \in LineTypes}

NextPipe ==
    \/ RunInvokeFirst /\ UNCHANGED serviceVars /\ UNCHANGED writerVars
    \/ RunSpawn /\ UNCHANGED serviceVars /\ UNCHANGED writerVars
    \/ \E record \in Records1 : \E cut \in 1..Len(record) :
          StdoutData(1, record, cut) /\ UNCHANGED serviceVars /\ UNCHANGED writerVars
    \/ StdoutRest(1) /\ UNCHANGED serviceVars /\ UNCHANGED writerVars
    \/ inv[1].rest = << >> /\ RunClose /\ UNCHANGED serviceVars /\ UNCHANGED writerVars
    \/ RunCloseSettle /\ UNCHANGED serviceVars /\ UNCHANGED writerVars

SpecPipe == Init /\ [][NextPipe]_vars

\* The same, with what Node's event loop guarantees: the 'error' event of a failed
\* spawn is emitted, and the awaits of the close handler (readdir, unlink; their
\* failures are caught) come back.  Nothing makes a running process exit.
SpecStreamFair ==
    /\ SpecStream
    /\ WF_vars(RunError /\ UNCHANGED serviceVars /\ UNCHANGED writerVars)
    /\ WF_vars(RunCloseSettle /\ UNCHANGED serviceVars /\ UNCHANGED writerVars)

\* The service: every invocation is started by handleMessage.  Of the lines a process
\* writes only the init lines are steps here: the others reach nothing but the
\* writer, whose buffer is the subject of SpecWriter.
NextService ==
    \/ start
    \/ Restart
    \/ \E m \in Msgs : \E c \in Convs : handleMessage(m, c)
    \/ \E m \in Msgs : Provisioned(m)
    \/ \E m \in Msgs : Confirmed(m)
    \/ \E m \in Msgs : Settled(m)
    \/ \E m \in Msgs : Completed(m)
    \/ isRunning /\ RunSpawn /\ UNCHANGED serviceVars /\ UNCHANGED writerVars
    \/ isRunning /\ RunStdoutInit /\ UNCHANGED serviceVars /\ UNCHANGED writerVars
    \/ isRunning /\ RunClose /\ UNCHANGED serviceVars /\ UNCHANGED writerVars
    \/ isRunning /\ RunCloseSettle /\ UNCHANGED serviceVars /\ UNCHANGED writerVars
    \/ isRunning /\ RunError /\ UNCHANGED serviceVars /\ UNCHANGED writerVars
    \/ isRunning /\ RunAbort /\ UNCHANGED serviceVars /\ UNCHANGED writerVars

SpecService == Init /\ [][NextService]_vars

\* The turns of a conversation without a restart: messages arrive one after another
\* or together, their invocations run to their end and the handlers finish.
NextTurns ==
    \/ start
    \/ \E m \in Msgs : \E c \in Convs : handleMessage(m, c)
    \/ \E m \in Msgs : \E c \in Convs : handleNextMessage(m, c)
    \/ \E m \in Msgs : Provisioned(m)
    \/ \E m \in Msgs : Confirmed(m)
    \/ \E m \in Msgs : Settled(m)
    \/ \E m \in Msgs : Completed(m)
    \/ RunSpawn /\ UNCHANGED serviceVars /\ UNCHANGED writerVars
    \/ RunStdoutInit /\ UNCHANGED serviceVars /\ UNCHANGED writerVars
    \/ RunClose /\ UNCHANGED serviceVars /\ UNCHANGED writerVars
    \/ RunCloseSettle /\ UNCHANGED serviceVars /\ UNCHANGED writerVars

SpecTurns == Init /\ [][NextTurns]_vars

\* One message handled from its arrival to the handler's end, its process running to
\* its exit or failing to spawn.
NextOneTurn ==
    \/ start
    \/ \E c \in Convs : handleMessage(1, c)
    \/ Provisioned(1)
    \/ Confirmed(1)
    \/ Settled(1)
    \/ Completed(1)
    \/ RunSpawn /\ UNCHANGED serviceVars /\ UNCHANGED writerVars
    \/ RunStdoutInit /\ UNCHANGED serviceVars /\ UNCHANGED writerVars
    \/ RunClose /\ UNCHANGED serviceVars /\ UNCHANGED writerVars
    \/ RunCloseSettle /\ UNCHANGED serviceVars /\ UNCHANGED writerVars
    \/ RunError /\ UNCHANGED serviceVars /\ UNCHANGED writerVars

SpecOneTurn == Init /\ [][NextOneTurn]_vars

\* Webhook mode up to the start of the processes: deliveries arrive, also of a
\* message that is being handled, and go their way to queryClaude.
NextWebhook ==
    \/ \E m \in Msgs : \E c \in Convs : \E messageId \in {Null} \cup MessageIds :
         handleMessageEvent(m, c, messageId)
    \/ \E m \in Msgs : EventSession(m)
    \/ \E m \in Msgs : Provisioned(m)
    \/ \E m \in Msgs : EventConfirmed(m)
    \/ RunSpawn /\ UNCHANGED serviceVars /\ UNCHANGED writerVars

SpecWebhook == Init /\ [][NextWebhook]_vars

\* One invocation with its stream, and direct calls of isSessionBusy at any moment.
NextBusy ==
    \/ RunInvokeFirst /\ UNCHANGED serviceVars /\ UNCHANGED writerVars
    \/ RunSpawn /\ UNCHANGED serviceVars /\ UNCHANGED writerVars
    \/ RunStdoutInit /\ UNCHANGED serviceVars /\ UNCHANGED writerVars
    \/ RunClose /\ UNCHANGED serviceVars /\ UNCHANGED writerVars
    \/ RunCloseSettle /\ UNCHANGED serviceVars /\ UNCHANGED writerVars
    \/ RunError /\ UNCHANGED serviceVars /\ UNCHANGED writerVars
    \/ RunAbort /\ UNCHANGED serviceVars /\ UNCHANGED writerVars
    \/ \E session \in Records : IsSessionBusyCall(session)

SpecBusy == Init /\ [][NextBusy]_vars

\* The service up to the start of the processes: messages arrive, their sessions are
\* found or provisioned, the busy check is made and the processes are spawned.
NextSessions ==
    \/ start
    \/ Restart
    \/ \E m \in Msgs : \E c \in Convs : handleMessage(m, c)
    \/ \E m \in Msgs : Provisioned(m)
    \/ \E m \in Msgs : Confirmed(m)
    \/ isRunning /\ RunSpawn /\ UNCHANGED serviceVars /\ UNCHANGED writerVars

SpecSessions == Init /\ [][NextSessions]_vars

\* One writer, the events of its invocation, the timers and the send primitive.
idleVars == <<activeClaudeProcesses, inv, nextSid, db, msg, isRunning, hist, messageLog, split>>

\* events whose text differs in length only
PlainTexts == {text \in Texts : \A k \in DOMAIN text : text[k] = "x"}

NextWriter ==
    \/ \E text \in Texts : WriterSend(text) /\ UNCHANGED idleVars
    \/ TimerFire /\ UNCHANGED idleVars
    \/ \E f \in DOMAIN flushes : \E ok \in BOOLEAN : SendDone(f, ok) /\ UNCHANGED idleVars
    \/ \E f \in DOMAIN flushes : DelayDone(f) /\ UNCHANGED idleVars
    \/ complete /\ UNCHANGED idleVars
    \/ WriterTick /\ UNCHANGED idleVars

SpecWriter == Init /\ [][NextWriter]_vars

\* The writer with a send primitive that can fail, fed with events of threshold size
\* and of more than one chunk: every event starts a flush.  It is watched for as long
\* as the pacing delays of one flush take.
FlushingTexts == {text \in PlainTexts : Len(text) >= FlushThreshold}

MaxPacing == 2      \* pacing delays watched

NextWriterFailing ==
    \/ \E text \in FlushingTexts : WriterSend(text) /\ UNCHANGED idleVars
    \/ \E f \in DOMAIN flushes : \E ok \in BOOLEAN : SendDone(f, ok) /\ UNCHANGED idleVars
    \/ \E f \in DOMAIN flushes : DelayDone(f) /\ UNCHANGED idleVars
    \/ complete /\ UNCHANGED idleVars
    \/ now < MaxPacing * ChunkDelay /\ WriterTick /\ UNCHANGED idleVars

SpecWriterFailing == Init /\ [][NextWriterFailing]_vars

\* The writer of an invocation that is rejected: events arrive until the process has
\* closed, then the handler reports the failure; complete() is not called.
NextWriterRejected ==
    \/ \E text \in PlainTexts : ~io.reported /\ WriterSend(text) /\ UNCHANGED idleVars
    \/ TimerFire /\ UNCHANGED idleVars
    \/ \E f \in DOMAIN flushes : SendDone(f, TRUE) /\ UNCHANGED idleVars
    \/ \E f \in DOMAIN flushes : DelayDone(f) /\ UNCHANGED idleVars
    \/ RejectedReported /\ UNCHANGED idleVars
    \/ WriterTick /\ UNCHANGED idleVars

SpecWriterRejected == Init /\ [][NextWriterRejected]_vars

\* The writer with a send primitive that never fails, and events whose text differs
\* in length only: the triggers of a flush look at nothing else.

NextWriterOk ==
    \/ \E text \in PlainTexts : WriterSend(text) /\ UNCHANGED idleVars
    \/ TimerFire /\ UNCHANGED idleVars
    \/ \E f \in DOMAIN flushes : SendDone(f, TRUE) /\ UNCHANGED idleVars
    \/ \E f \in DOMAIN flushes : DelayDone(f) /\ UNCHANGED idleVars
    \/ complete /\ UNCHANGED idleVars
    \/ WriterTick /\ UNCHANGED idleVars

SpecWriterOk == Init /\ [][NextWriterOk]_vars

\* splitMessage called directly (as the tests call it) on every text and bound of
\* the sets above.
InitSplit ==
    /\ now = 0
    /\ activeClaudeProcesses = << >>
    /\ inv = [i \in Invs |-> NoInv]
    /\ nextSid = 1
    /\ db = [c \in Convs |-> NoRow]
    /\ msg = [m \in Msgs |-> NoMsg]
    /\ isRunning = FALSE
    /\ messageLog = {}
    /\ hist = [restarts |-> 0, stale |-> {}, busy |-> NoBusy]
    /\ buffer = << >>
    /\ lastFlushTime = 0
    /\ flushTimer = NoTimer
    /\ timers = << >>
    /\ flushes = << >>
    /\ completePc = "idle"
    /\ io = [appended |-> << >>, sent |-> << >>, done |-> << >>, failed |-> {}, unhandled |-> FALSE, reported |-> FALSE,
             fails |-> 0,
             events |-> 0,
             completes |-> "never"]
    /\ split \in {SplitCalled(text, maxLength) : text \in SplitTexts, maxLength \in 1..MaxBound}

NextSplit == SplitReturn

SpecSplit == InitSplit /\ [][NextSplit]_vars

\* splitMessage called directly, or by the flushes of a writer that is fed with
\* events of no text and of text up to the threshold.
ShortTexts == {text \in PlainTexts : Len(text) <= FlushThreshold}

NextSplitting ==
    \/ SplitReturn
    \/ \E text \in ShortTexts : split.pc = "none" /\ WriterSend(text) /\ UNCHANGED idleVars
    \/ split.pc = "none" /\ TimerFire /\ UNCHANGED idleVars
    \/ \E f \in DOMAIN flushes : SendDone(f, TRUE) /\ UNCHANGED idleVars
    \/ split.pc = "none" /\ complete /\ UNCHANGED idleVars
    \/ split.pc = "none" /\ WriterTick /\ UNCHANGED idleVars

SpecSplitting == (Init \/ InitSplit) /\ [][NextSplitting]_vars

\* The writer fed with events of no text and of text up to the threshold, every send
\* succeeding: every flush has one chunk.
NextWriterShort ==
    \/ \E text \in ShortTexts : WriterSend(text) /\ UNCHANGED idleVars
    \/ TimerFire /\ UNCHANGED idleVars
    \/ \E f \in DOMAIN flushes : SendDone(f, TRUE) /\ UNCHANGED idleVars
    \/ complete /\ UNCHANGED idleVars
    \/ WriterTick /\ UNCHANGED idleVars

SpecWriterShort == Init /\ [][NextWriterShort]_vars

----------------------------------------------------------------------------
(* Properties of the runner and the service *)

\* the key under which invocation i expects its registry entry
CurrentKey(i) == FinalSessionId(inv[i])

KeysOf(i) == {k \in Registered : activeClaudeProcesses[k] = i}

ConvOf(i) == msg[inv[i].owner].conv

HasSession(m) == msg[m].pc \in {"confirm", "invoking", "completing"} \/ msg[m].result \in {"busy", "ok", "error"}

CreatedMsgs(i) == SelectSeq(inv[i].ws, LAMBDA x : x.type = "session-created")

\* C1: there are never two live processes associated with the same key of the
\* registry, whatever the interleaving of invocations, rekeys, aborts and exits.
C1_OneLivePerKey ==
    \A i, j \in Invs :
        (i # j /\ Live(i) /\ Live(j)) => CurrentKey(i) # CurrentKey(j)

\* C2: with every invocation started by handleMessage, a conversation never has two
\* live processes in its working directory.
C2_OneLivePerConversation ==
    \A i, j \in Invs :
        (i # j /\ Live(i) /\ Live(j)) => ConvOf(i) # ConvOf(j)

\* C3: the record getOrCreateSession returns has an id that is null or active in the
\* registry; an id that is not active has been cleared in the store as well.
C3_StaleIdCleared ==
    \A m \in Msgs :
        HasSession(m) =>
            /\ msg[m].session.claude_session_id = Null \/ msg[m].retActive
            /\ ~msg[m].retActive => msg[m].retStored = Null

\* C4: no message handled after a restart sees a process-session id that was
\* persisted before the restart.
C4_StartupReset ==
    \A m \in Msgs :
        HasSession(m) => msg[m].session.claude_session_id \notin hist.stale

\* C5: an invocation whose process was ended by a signal rejects with a message that
\* names the signal, never with the bare 'exited with code null'.
C5_SignalNamed ==
    \A i \in Invs :
        (inv[i].pc = "closed" /\ inv[i].signal # Null) =>
            /\ inv[i].outcome = "rejected"
            /\ inv[i].signal \in Range(inv[i].error)
            /\ inv[i].error # <<"Claude", "CLI", "exited", "with", "code", "null">>

\* C8: while a process started for a conversation is live and not aborted,
\* isSessionBusy of the conversation's persisted record is true.
C8_BusyTruthful ==
    \A i \in Invs :
        (inv[i].proc = "alive" /\ inv[i].owner # NoOwner) =>
            isSessionBusy(getSession(ConvOf(i)))

\* C9: from its spawn until it exits or is aborted a process is registered under
\* exactly one key.
C9_ExactlyOneKey ==
    \A i \in Invs : inv[i].proc = "alive" => Cardinality(KeysOf(i)) = 1

\* C10: an invocation started without a resume id emits 'session-created' exactly
\* once, at the first init line that carries a session id and with that id, and
\* never again, however many init lines follow.
C10_CreatedOnce ==
    \A i \in Invs :
        (inv[i].pc # "none" /\ inv[i].sessionId = Null) =>
            IF inv[i].inits = 0
            THEN Len(CreatedMsgs(i)) = 0
            ELSE /\ Len(CreatedMsgs(i)) = 1
                 /\ CreatedMsgs(i)[1].data = inv[i].capturedSessionId

RECURSIVE Flatten(_)
Flatten(chunks) == IF Len(chunks) = 0 THEN << >> ELSE Head(chunks) \o Flatten(Tail(chunks))

Quiescent == flushes = << >> /\ Len(buffer) = 0

\* C6: when every send succeeds, the chunks handed to the send primitive, in that
\* order, concatenate to the text appended, in append order.
C6_RoundTrip ==
    (io.fails = 0 /\ Quiescent) => Flatten(io.sent) = io.appended

\* C7: no appended text is dropped: once complete() has returned the buffer holds no
\* text, and every character appended has been handed to the send primitive.
C7_NothingLeft ==
    completePc = "returned" =>
        /\ Len(buffer) = 0
        /\ flushes = << >> => Range(io.appended) \subseteq Range(Flatten(io.sent))

\* a fresh invocation that has read two init lines with ids and emitted one signal
C10_Witness ==
    \E i \in Invs :
        /\ inv[i].sessionId = Null
        /\ inv[i].inits >= 2
        /\ Len(CreatedMsgs(i)) = 1

----------------------------------------------------------------------------
(* Command line, abort and settlement *)

ResumeFlags == {"--resume=" \o sid : sid \in AllSids}

\* C11: an invocation started with a resume id has the resume flag with exactly that
\* id on its command line and emits no 'session-created', whatever init lines its
\* process writes; an invocation started without one has no resume flag.
C11_ResumeFlag ==
    \A i \in Invs :
        inv[i].pc # "none" =>
            IF inv[i].sessionId # Null
            THEN /\ Range(inv[i].args) \cap ResumeFlags = {"--resume=" \o inv[i].sessionId}
                 /\ Len(CreatedMsgs(i)) = 0
            ELSE Range(inv[i].args) \cap ResumeFlags = {}

\* a resumed invocation whose process has written an init line with another id
C11_Witness ==
    \E i \in Invs :
        /\ inv[i].sessionId # Null
        /\ inv[i].inits >= 1
        /\ nextSid > 1
        /\ "--resume=s0" \in Range(inv[i].args)
        /\ Len(CreatedMsgs(i)) = 0

\* C12: abortClaudeSession(key) returns true exactly when key is registered at the
\* call; then the registered process gets the signal and key is removed, so
\* isClaudeSessionActive(key) is false right after and a second abort of key returns
\* false; when it returns false no process is signalled and the registry is unchanged.
C12_AbortContract ==
    [][\A key \in Keys :
          abortClaudeSession(key) =>
              /\ AbortReturns(key) = isClaudeSessionActive(key)
              /\ AbortReturns(key) =>
                    /\ ~isClaudeSessionActive(key)'
                    /\ ~AbortReturns(key)'
                    /\ activeClaudeProcesses' = MapDelete(activeClaudeProcesses, key)
                    /\ inv[AbortTarget(key)].proc = "alive"
                          => inv'[AbortTarget(key)].proc = "killed"
                    /\ \A j \in Invs \ {AbortTarget(key)} : inv'[j] = inv[j]
              /\ ~AbortReturns(key) => UNCHANGED <<activeClaudeProcesses, inv>>]_vars

\* a process that was signalled while alive and whose key is gone from the registry
C12_Witness ==
    \E i \in Invs :
        /\ inv[i].proc = "killed"
        /\ inv[i].pc = "running"
        /\ KeysOf(i) = {}
        /\ ~isClaudeSessionActive(CurrentKey(i))

\* the error of the 'error' event of a failed spawn
SpawnFailed(i) == inv[i].error = <<"spawn", "ENOENT">>

\* C13: abortClaudeSession settles nothing: the invocation it signals is pending
\* when it returns, and an invocation whose process was spawned is rejected only by
\* the close handler, after the process has exited.
C13_AbortNeverSettles ==
    [][/\ \A key \in Keys :
            abortClaudeSession(key) =>
                /\ \A i \in Invs : /\ inv'[i].outcome = inv[i].outcome
                                   /\ inv'[i].settles = inv[i].settles
                /\ AbortReturns(key) => inv'[AbortTarget(key)].outcome = "pending"
       /\ \A i \in Invs :
            (inv'[i].outcome = "rejected" /\ ~SpawnFailed(i)') =>
                /\ inv'[i].pc = "closed"
                /\ inv'[i].proc = "exited"]_vars

\* an aborted invocation, rejected after its process was ended by the SIGTERM
C13_Witness ==
    \E i \in Invs :
        /\ inv[i].signal = "SIGTERM"
        /\ inv[i].pc = "closed"
        /\ inv[i].outcome = "rejected"
        /\ inv[i].settles = 1

\* C14: an invocation settles once and keeps its outcome: pending until its process
\* has closed or its spawn has failed; after the close, resolved exactly when the
\* exit code is 0, else rejected; rejected on a spawn error, and the close that
\* follows a spawn error changes nothing of the outcome.  Once the process has
\* closed or the spawn has failed, the invocation does settle.
C14_SettlesOnce ==
    /\ [][\A i \in Invs :
             /\ inv[i].outcome # "pending" =>
                   /\ inv'[i].outcome = inv[i].outcome
                   /\ inv'[i].error = inv[i].error
             /\ inv'[i].pc \in {"none", "prespawn"} => inv'[i].outcome = "pending"
             /\ inv'[i].outcome = "resolved" =>
                   inv'[i].pc = "closed" /\ inv'[i].code = 0
             /\ inv'[i].pc = "closed" =>
                   inv'[i].outcome = (IF inv'[i].code = 0 THEN "resolved" ELSE "rejected")
             /\ inv'[i].proc = "errored" =>
                   inv'[i].outcome = "rejected" /\ SpawnFailed(i)']_vars
    /\ \A i \in Invs :
          (inv[i].pc = "cleanup" \/ inv[i].proc = "failed") ~> (inv[i].outcome # "pending")

\* a spawn error followed by the close event: reject was called twice, the outcome
\* is the first
C14_Witness ==
    \E i \in Invs :
        /\ inv[i].pc = "closed"
        /\ SpawnFailed(i)
        /\ inv[i].settles = 2
        /\ inv[i].outcome = "rejected"

----------------------------------------------------------------------------
(* The writer's triggers *)

\* C15: a send() whose text brings the buffer to the threshold or above flushes in
\* the same step; one that leaves it below the threshold, with less than the
\* interval elapsed since the last flush, hands nothing to the send primitive and
\* leaves the timer armed for the rest of the interval; and the timer hands text
\* over only when the interval has elapsed since the last flush.
C15_FlushTriggers ==
    [][/\ \A text \in Texts :
            WriterSend(text) =>
                LET buf == buffer \o Stamp(text, Len(io.appended))
                    elapsed == now - lastFlushTime
                IN /\ Len(buf) >= FlushThreshold =>
                        /\ buffer' = << >>
                        /\ io'.sent = Append(io.sent, splitMessage(buf, MaxLength)[1])
                   /\ (Len(buf) < FlushThreshold /\ elapsed < FlushInterval) =>
                        /\ buffer' = buf
                        /\ io'.sent = io.sent
                        /\ flushTimer' # NoTimer
                        /\ flushTimer' <= lastFlushTime + FlushInterval
       /\ (TimerFire /\ io'.sent # io.sent) => now >= lastFlushTime + FlushInterval]_vars

\* one append below the threshold, handed over by the timer once the interval was over
C15_Witness ==
    /\ io.events = 1
    /\ Len(io.appended) = FlushThreshold - 1
    /\ Len(io.sent) = 1
    /\ completePc = "idle"
    /\ now >= FlushInterval

\* C16: complete() on an empty buffer hands nothing to the send primitive and starts
\* no flush, the first time and every time after; and once complete() has been
\* called no flush timer is armed.
C16_CompleteIdempotent ==
    [][/\ complete =>
            /\ flushTimer' = NoTimer
            /\ Len(buffer) = 0 =>
                  /\ io'.sent = io.sent
                  /\ UNCHANGED <<buffer, flushes, lastFlushTime>>
                  /\ completePc' = "returned"
       /\ completePc' # "idle" => flushTimer' = NoTimer]_vars

\* complete() has flushed the text, returned, and was called again on the empty buffer
C16_Witness ==
    /\ io.completes = "again"
    /\ completePc = "returned"
    /\ Len(buffer) = 0
    /\ flushes = << >>
    /\ Len(io.sent) = 1
    /\ Len(io.appended) = FlushThreshold - 1

\* the chunks of a returned call that are followed by another chunk, each with the
\* text that remained when it was cut
RECURSIVE Offset(_, _)
Offset(chunks, k) == IF k <= 1 THEN 0 ELSE Offset(chunks, k - 1) + Len(chunks[k - 1])

RemainingAt(k) == Substring(split.text, Offset(split.chunks, k), Len(split.text))

\* places of the trailing 20% of the bound (the last fifth of the first maxLength
\* characters, the place 0.8 * maxLength itself left open) that hold a boundary
\* character
TrailingBoundaries(remaining, maxLength) ==
    {p \in 0..(maxLength - 1) :
        /\ p * 10 > maxLength * 8
        /\ p < Len(remaining)
        /\ remaining[p + 1].ch \in Boundary}

\* C18: every chunk splitMessage returns is at most maxLength long.
C18_ChunkBound ==
    split.pc = "returned" =>
        \A k \in DOMAIN split.chunks : Len(split.chunks[k]) <= split.maxLength

\* C17: of a text longer than the bound, a chunk that is followed by another ends
\* just after a boundary character of the trailing 20% of the bound when there is
\* one there, and is exactly the bound long when there is none.
C17_SplitRule ==
    (split.pc = "returned" /\ Len(split.text) > split.maxLength) =>
        \A k \in 1..(Len(split.chunks) - 1) :
            LET remaining == RemainingAt(k)
                chunk == split.chunks[k]
                near == TrailingBoundaries(remaining, split.maxLength)
            IN IF near # {}
               THEN (Len(chunk) - 1) \in near
               ELSE Len(chunk) = split.maxLength

\* C19: a conversation has at most one row, which keeps its identity once created,
\* and every getOrCreateSession call of the conversation that returns yields that
\* row, also when two first messages were provisioning at the same time.
C19_OneRecord ==
    /\ [](\A m \in Msgs : HasSession(m) =>
              /\ msg[m].session.exists
              /\ getSession(msg[m].conv).exists
              /\ msg[m].session.id = getSession(msg[m].conv).id)
    /\ [][\A c \in Convs : getSession(c).exists =>
              /\ db'[c].exists
              /\ db'[c].id = getSession(c).id]_vars

\* two first messages were provisioning together: one created the row and went on,
\* the other did not return
C19_Witness ==
    \E m, k \in Msgs :
        /\ m # k
        /\ msg[m].conv = msg[k].conv
        /\ HasSession(m)
        /\ msg[m].session.claude_session_id = Null
        /\ msg[k].result = "system-error"
        /\ getSession(msg[m].conv).exists

\* C20: isSessionBusy(record) is true exactly when the record is there, its stored
\* id is not null and the id is a key of the registry at the moment of the call;
\* the call changes neither the registry nor the store.
C20_BusyExact ==
    [][\A session \in Records : IsSessionBusyCall(session) =>
          /\ hist'.busy.result =
                (/\ session.exists
                 /\ session.claude_session_id # Null
                 /\ session.claude_session_id \in DOMAIN activeClaudeProcesses)
          /\ UNCHANGED <<activeClaudeProcesses, db, inv>>]_vars

\* a call has just returned true for a record whose id is registered, the process
\* of that id still running
C20_Witness ==
    /\ hist.busy.called
    /\ hist.busy.result
    /\ hist.busy.session.claude_session_id \in DOMAIN activeClaudeProcesses
    /\ \E i \in Invs : inv[i].proc = "alive" /\ inv[i].capturedSessionId = hist.busy.session.claude_session_id

\* the handlers of a message id that have called queryClaude
Invoked(messageId) == {m \in Msgs : msg[m].messageId = messageId /\ msg[m].inv # 0}

LastInvoked ==
    LET started == {i \in Invs : inv[i].pc # "none" /\ inv[i].owner # NoOwner}
    IN IF started = {} THEN 0 ELSE CHOOSE i \in started : \A j \in started : j <= i

\* the invocation resolved and its handler has gone past the await of queryClaude
CompletedOk(i) ==
    /\ inv[i].outcome = "resolved"
    /\ \A m \in Msgs : ~(msg[m].inv = i /\ msg[m].pc = "invoking")

\* C22: when the conversation's previous invocation has completed successfully and
\* captured an id, the session the next message gets, and with it its resume id,
\* carries that id.
C22_ResumesPrevious ==
    [][\A m \in Msgs : \A c \in Convs :
          ((handleMessage(m, c) \/ handleNextMessage(m, c))
             /\ LastInvoked # 0 /\ CompletedOk(LastInvoked)
             /\ inv[LastInvoked].capturedSessionId # Null)
          => msg'[m].session.claude_session_id = inv[LastInvoked].capturedSessionId]_vars

\* the events an invocation's sink received from the stdout handler
StdoutEvents(i) ==
    SelectSeq(inv[i].ws, LAMBDA x : x.type \in {"claude-response", "claude-output",
                                                 "session-created"})

\* the stdout lines read so far: every line read that did not come from stderr
StdoutLines(i) ==
    inv[i].lines - Len(SelectSeq(inv[i].ws, LAMBDA x : x.type = "claude-error"
                                                       /\ x.data = "stderr"))

\* C23: every stdout line read has been forwarded to the sink as one event.
C23_EveryLineForwarded ==
    \A i \in Invs : Len(StdoutEvents(i)) = StdoutLines(i)

\* C24: on first contact, with the directory there or made, getOrCreateSession
\* creates the record with a null process-session id and returns it, whether git
\* and the project registration succeeded or failed.
C24_SetupBestEffort ==
    [][\A m \in Msgs : \A dir \in {"exists", "absent"} : \A gitOk, projectOk \in BOOLEAN :
          (Provision(m, dir, gitOk, projectOk) /\ ~getSession(msg[m].conv).exists) =>
              /\ db'[msg[m].conv].exists
              /\ db'[msg[m].conv].claude_session_id = Null
              /\ msg'[m].session = db'[msg[m].conv]
              /\ msg'[m].pc = "confirm"]_vars

\* the directory was there already, git and the registration both failed, and the
\* handler holds the new record
C24_Witness ==
    \E m \in Msgs :
        /\ msg[m].setup = [dir |-> "exists", git |-> FALSE, project |-> FALSE]
        /\ msg[m].session.exists
        /\ msg[m].session.claude_session_id = Null
        /\ msg[m].session.id = getSession(msg[m].conv).id
        /\ msg[m].pc = "confirm"

\* C25: at most one flush timer is pending, the timer handle is non-null exactly
\* when a timer is pending, and a pending timer is due at the last flush time plus
\* the flush interval.
C25_OneTimer ==
    /\ Len(timers) <= 1
    /\ flushTimer # NoTimer <=> timers # << >>
    /\ flushTimer # NoTimer =>
          /\ timers = <<flushTimer>>
          /\ flushTimer = lastFlushTime + FlushInterval

\* a timer armed after an earlier flush, some time into the interval, and a second
\* event appended while it is pending
C25_Witness ==
    /\ flushTimer # NoTimer
    /\ timers = <<flushTimer>>
    /\ lastFlushTime > 0
    /\ now > lastFlushTime
    /\ Len(buffer) > 0
    /\ io.events >= 2

\* the text held by the flushes that are running, in the order they started
RECURSIVE CapturedFrom(_)
CapturedFrom(f) ==
    IF f > Len(flushes) THEN << >> ELSE flushes[f].text \o CapturedFrom(f + 1)

\* every place a character can be: the text of a flush that has ended without an
\* error, the text a running flush has captured, the live buffer
Places == io.done \o CapturedFrom(1) \o buffer

\* C26: every appended character is in exactly one place, the text captured by one
\* flush or the live buffer, never lost and never in two: the places hold as many
\* characters as were appended, and the same ones.
C26_EveryCharOnePlace ==
    /\ Len(Places) = Len(io.appended)
    /\ {Places[p] : p \in DOMAIN Places} = {io.appended[k] : k \in DOMAIN io.appended}

\* an event was appended while a flush held captured text, so that both the running
\* flush and the live buffer hold characters
C26_Witness ==
    /\ Len(flushes) >= 1
    /\ Len(flushes[1].text) > 0
    /\ Len(buffer) > 0
    /\ buffer[1].id > flushes[1].text[Len(flushes[1].text)].id

\* the flushes that await a call of sendTextMessage
InFlight == {f \in DOMAIN flushes : flushes[f].phase = "send"}

\* C27: chunks are delivered one at a time: never two calls of the send primitive
\* in flight at once, and while a flush has chunks left to send no other flush is
\* running.
C27_OneSendAtATime ==
    /\ Cardinality(InFlight) <= 1
    /\ \A f \in DOMAIN flushes :
          flushes[f].next < Len(flushes[f].chunks) => Len(flushes) = 1

\* the characters delivered: those of the chunks whose sendTextMessage call did not
\* fail, in the order of the calls
RECURSIVE DeliveredFrom(_)
DeliveredFrom(k) ==
    IF k > Len(io.sent) THEN << >>
    ELSE (IF k \in io.failed THEN << >> ELSE io.sent[k]) \o DeliveredFrom(k + 1)

\* C28: a send that fails puts the whole text of its flush back in front of the
\* buffer, and the text delivered keeps append order across failures: a character
\* delivered after a later one is a character delivered again.
C28_OrderAcrossFailures ==
    /\ [][\A f \in DOMAIN flushes :
             SendDone(f, FALSE) => buffer' = flushes[f].text \o buffer]_vars
    /\ [](LET delivered == DeliveredFrom(1) IN
            \A p, q \in DOMAIN delivered :
               (p < q /\ delivered[p].id > delivered[q].id) =>
                   \E r \in 1..(p - 1) : delivered[r].id = delivered[q].id)

\* C29: a failing send does not leave the writer: the flush it fails in ends
\* without a rejection, handled or not, a complete() that awaits it returns, and the
\* invocations, the registry and the session records are left as they are.
C29_FailureContained ==
    [][\A f \in DOMAIN flushes :
          SendDone(f, FALSE) =>
              /\ completePc' # "rejected"
              /\ ~io'.unhandled
              /\ flushes[f].awaited => completePc' = "returned"
              /\ UNCHANGED <<inv, activeClaudeProcesses, db>>]_vars

\* complete() has returned although the send of the flush it awaited failed, the
\* text being back in the buffer
C29_Witness ==
    /\ completePc = "returned"
    /\ io.fails >= 1
    /\ io.completes = "once"
    /\ Len(io.sent) \in io.failed
    /\ Len(buffer) > 0

\* C30: complete() is terminal: once it has returned no flush is running, so no
\* send is in flight and none will be issued, and no timer is pending.
C30_CompleteTerminal ==
    completePc = "returned" =>
        /\ flushes = << >>
        /\ flushTimer = NoTimer
        /\ timers = << >>

\* C31: once the handler has reported the failure of a rejected invocation, the
\* writer has no timer armed and hands no streamed content to the send primitive:
\* the failure message stays the last thing sent.
C31_ScopedOnReject ==
    io.reported =>
        /\ flushTimer = NoTimer
        /\ timers = << >>
        /\ io.sent[Len(io.sent)] = FailureMessage

\* C32: when an invocation started without a resume id has resolved having reported
\* an id, the handler's step after it leaves that id in the conversation's record,
\* the writer having captured it; when the invocation has rejected, the step leaves
\* the store as it is.
C32_PersistsCaptured ==
    [][\A m \in Msgs :
          Settled(m) =>
              LET r == inv[msg[m].inv] IN
              /\ (r.outcome = "resolved" /\ r.sessionId = Null /\ r.capturedSessionId # Null) =>
                    /\ r.wsSessionId = r.capturedSessionId
                    /\ db'[msg[m].conv].claude_session_id = r.capturedSessionId
              /\ r.outcome = "rejected" => db' = db]_vars

\* a first-contact invocation resolved, its id is in the record and the handler is
\* past the await
C32_Witness ==
    \E m \in Msgs :
        /\ msg[m].pc \in {"completing", "done"}
        /\ msg[m].inv # 0
        /\ inv[msg[m].inv].outcome = "resolved"
        /\ inv[msg[m].inv].sessionId = Null
        /\ inv[msg[m].inv].capturedSessionId # Null
        /\ db[msg[m].conv].claude_session_id = inv[msg[m].inv].capturedSessionId

\* C33: the registry holds no entry for a process that has exited or whose spawn
\* error has been handled, and none for an invocation that has settled: the entry
\* is gone before the caller sees the outcome.
C33_RemovedBeforeSettle ==
    \A k \in Registered :
        /\ inv[activeClaudeProcesses[k]].proc \notin {"exited", "errored"}
        /\ inv[activeClaudeProcesses[k]].outcome = "pending"

\* a process that was registered under a provisional key and rekeyed to its
\* captured id has exited and its invocation has settled
C33_Witness ==
    \E i \in Invs :
        /\ inv[i].pc = "closed"
        /\ inv[i].sessionId = Null
        /\ inv[i].capturedSessionId # Null
        /\ inv[i].capturedSessionId # inv[i].processKey
        /\ inv[i].outcome # "pending"
        /\ \A k \in Registered : activeClaudeProcesses[k] # i

\* C34: no window between the call of queryClaude and the registration: an
\* invocation that has been called and has not spawned yet is already listed in the
\* registry.
C34_RegisteredAtInvoke ==
    \A i \in Invs :
        inv[i].pc = "prespawn" => \E k \in Registered : activeClaudeProcesses[k] = i

\* C35: the close handler and the error handler of a process remove that process's
\* own entry only: every key that refers to the live process of another invocation
\* is still there, with the same invocation, after the step.
C35_RemovesOwnEntryOnly ==
    [][\A i \in Invs :
          ((\E e \in Exits(inv[i]) : Close(i, e[1], e[2])) \/ ErrorEvent(i)) =>
              \A k \in Registered :
                  (activeClaudeProcesses[k] # i
                     /\ inv[activeClaudeProcesses[k]].proc = "alive") =>
                      /\ k \in DOMAIN activeClaudeProcesses'
                      /\ activeClaudeProcesses'[k] = activeClaudeProcesses[k]]_vars

\* C36: a process that abortClaudeSession has found and killed is in the registry
\* under no key from then on.
C36_AbortedStaysOut ==
    \A k \in Registered : inv[activeClaudeProcesses[k]].proc # "killed"

\* C37: two invocations started without a resume id never have the same
\* provisional key, so the registration of one leaves the entry of the other.
C37_DistinctProvisionalKeys ==
    \A i, j \in Invs :
        (i # j /\ inv[i].sessionId = Null /\ inv[j].sessionId = Null
           /\ inv[i].processKey # Null /\ inv[j].processKey # Null)
        => inv[i].processKey # inv[j].processKey

\* C38: a record written as one line is never forwarded as raw fragments, however
\* the pipe delivers it, and an init record carrying an id that has been delivered
\* in full to a process started without a resume id has been captured.
C38_RecordsSurviveChunking ==
    \A i \in Invs :
        /\ \A n \in DOMAIN inv[i].ws :
              inv[i].ws[n].type = "claude-output" => inv[i].ws[n].data = "line"
        /\ (inv[i].rest = << >> /\ inv[i].inits >= 1 /\ inv[i].sessionId = Null) =>
              inv[i].capturedSessionId # Null

\* C39: for every text and every bound from 1 on, the chunks splitMessage returns
\* are non-empty and concatenate to the text, and no empty text is handed to the
\* send primitive by a flush, by the timer on an empty buffer or by complete().
C39_SplitLosesNothing ==
    /\ split.pc = "returned" =>
          /\ \A k \in DOMAIN split.chunks : Len(split.chunks[k]) > 0
          /\ Flatten(split.chunks) = split.text
    /\ \A n \in DOMAIN io.sent : Len(io.sent[n]) > 0

====
